---- MODULE Spec2Model ----
(***************************************************************************)
(* Attack-table lookups of the chess crate: the magic-bitboard engine      *)
(* (src/src/magic.rs), the square arithmetic it relies on                  *)
(* (src/src/square.rs) and the build-time soundness checks that license    *)
(* the unchecked table reads.                                              *)
(*                                                                         *)
(* A BitBoard is modelled as the set of the squares (bit positions 0..63)  *)
(* whose bit is set; a 64-bit factor of the magic multiplication is        *)
(* modelled as its eight bytes, least significant first, so that the       *)
(* product keeps its 64-bit width.                                         *)
(***************************************************************************)
EXTENDS Integers, Sequences, FiniteSets, TLC

(* ----------------------------- bounds ---------------------------------- *)

\* Largest number of occupied squares in a sparse blocker set of a query.
MaxBlockers == 2

\* Largest number of entries by which a generated move table may fall short
\* of the length the generator should have produced (a broken table).
MaxShort == 2

\* Number of squares (a prefix of SlidingSquareOrder) on which sliding-piece
\* queries are made.
MaxSlidingSquares == 6

\* the strings parsed have at most this many characters
MaxStrLen == 3

(* ------------------------ squares (square.rs) -------------------------- *)

NUM_SQUARES == 64

Squares == 0 .. (NUM_SQUARES - 1)

Ranks == 0 .. 7

Files == 0 .. 7

White == "White"

Black == "Black"

Colors == {White, Black}

\* Option::None of a square, and the absent square or index of a query
None == -1

NoColor == "none"

RECURSIVE Pow2(_)
Pow2(n) == IF n = 0 THEN 1 ELSE 2 * Pow2(n - 1)

\* a ^ b on the low eight bits
BitXor(a, b) ==
    LET x[k \in 0 .. 8] ==
            IF k = 8 THEN 0
            ELSE (((a \div Pow2(k)) + (b \div Pow2(k))) % 2) * Pow2(k) + x[k + 1]
    IN  x[0]

\* Square::new: match sq & 63
new(sq) == sq % 64

\* make_square with rank and file in each other's place
make_square_swapped(rank, file) == new(BitXor((file * 8) % 256, rank))

\* Square::make_square: (rank as u8) << 3 ^ (file as u8)
make_square(rank, file) == new(BitXor((rank * 8) % 256, file))

\* Square::get_rank: self as usize >> 3
get_rank(sq) == sq \div 8

\* Square::get_file: self as usize & 7
get_file(sq) == sq % 8

to_index(sq) == sq

to_int(sq) == sq % 256

\* gen_squares_data: entry i of the list names rank i / 8 and file i % 8
\* (A1 = First, A; B1 = First, B; ... H8 = Eighth, H)
gen_squares_data == [i \in 0 .. 63 |-> [rank |-> i \div 8, file |-> i % 8]]

\* (rank as isize) << 3 ^ (file as isize)
square_index(rank, file) == BitXor(rank * 8, file)

\* ALL_SQUARES[i]: the square of entry i, whose discriminant is square_index
ALL_SQUARES ==
    [i \in 0 .. 63 |->
        square_index(gen_squares_data[i].rank, gen_squares_data[i].file)]

\* Rank::up, Rank::down, File::left, File::right wrap around the board.
rank_up(r) == (r + 1) % 8

rank_down(r) == (r + 7) % 8

file_left(f) == (f + 7) % 8

file_right(f) == (f + 1) % 8

\* up testing for the first rank instead of the eighth
up_first_rank(sq) ==
    IF get_rank(sq) = 0 THEN None
    ELSE make_square(rank_up(get_rank(sq)), get_file(sq))

up(sq) ==
    IF get_rank(sq) = 7 THEN None
    ELSE make_square(rank_up(get_rank(sq)), get_file(sq))

down(sq) ==
    IF get_rank(sq) = 0 THEN None
    ELSE make_square(rank_down(get_rank(sq)), get_file(sq))

left(sq) ==
    IF get_file(sq) = 0 THEN None
    ELSE make_square(get_rank(sq), file_left(get_file(sq)))

right(sq) ==
    IF get_file(sq) = 7 THEN None
    ELSE make_square(get_rank(sq), file_right(get_file(sq)))

forward(sq, color) == IF color = White THEN up(sq) ELSE down(sq)

backward(sq, color) == IF color = White THEN down(sq) ELSE up(sq)

uup(sq) == make_square(rank_up(get_rank(sq)), get_file(sq))

udown(sq) == make_square(rank_down(get_rank(sq)), get_file(sq))

uleft(sq) == make_square(get_rank(sq), file_left(get_file(sq)))

uright(sq) == make_square(get_rank(sq), file_right(get_file(sq)))

\* uforward stepping the wrong way for each color
uforward_swapped(sq, color) == IF color = White THEN udown(sq) ELSE uup(sq)

uforward(sq, color) == IF color = White THEN uup(sq) ELSE udown(sq)

ubackward(sq, color) == IF color = White THEN udown(sq) ELSE uup(sq)

\* Color::to_index
color_index(color) == IF color = White THEN 0 ELSE 1

(* --------------------------- bit boards -------------------------------- *)

EMPTY == {}

\* !EMPTY
Universe == Squares

from_square(sq) == {sq}

BitAnd(a, b) == a \cap b

BitNot(a) == Universe \ a

BitXorBB(a, b) == (a \ b) \cup (b \ a)

\* the number of squares of a board below square s
BitsBelow(bb, s) == Cardinality({m \in bb : m < s})

\* the integer (below 2^16) whose set bits are the given bit positions
WordOf(bits) ==
    LET v[k \in 0 .. 16] ==
            IF k = 16 THEN 0 ELSE (IF k \in bits THEN 1 ELSE 0) + 2 * v[k + 1]
    IN  v[0]

count_ones(bb) == Cardinality(bb)

\* the byte j (0 = least significant) of a board read as a 64-bit integer
ByteOf(bb, j) ==
    LET v[k \in 0 .. 8] ==
            IF k = 8 THEN 0
            ELSE (IF (8 * j + k) \in bb THEN 1 ELSE 0) + 2 * v[k + 1]
    IN  v[0]

\* a board as the byte vector of its 64-bit integer
ToBytes(bb) ==
    <<ByteOf(bb, 0), ByteOf(bb, 1), ByteOf(bb, 2), ByteOf(bb, 3),
      ByteOf(bb, 4), ByteOf(bb, 5), ByteOf(bb, 6), ByteOf(bb, 7)>>

\* a * b mod 2^64 on byte vectors (u64 wrapping multiplication): byte n of
\* the product is the sum of the byte products a[i] * b[n - i] and the carry
\* of byte n - 1; what would carry out of byte 7 is dropped
wrapping_mul(a, b) ==
    LET col(n) ==
            LET s[i \in 0 .. n] ==
                    a[i + 1] * b[n - i + 1] + (IF i = 0 THEN 0 ELSE s[i - 1])
            IN  s[n]
        c[n \in 0 .. 7] == col(n) + (IF n = 0 THEN 0 ELSE c[n - 1] \div 256)
    IN  <<c[0] % 256, c[1] % 256, c[2] % 256, c[3] % 256,
          c[4] % 256, c[5] % 256, c[6] % 256, c[7] % 256>>

\* (x >> rightshift) as usize, for a byte vector x
to_size(x, rightshift) ==
    LET lo == rightshift \div 8
        v[j \in lo .. 8] == IF j = 8 THEN 0 ELSE x[j + 1] + 256 * v[j + 1]
    IN  IF rightshift >= 64 THEN 0 ELSE v[lo] \div Pow2(rightshift % 8)

\* _pext_u64: the bits of x selected by mask, packed into the low bits
pext(x, mask) == WordOf({BitsBelow(mask, s) : s \in x \cap mask})

\* _pdep_u64: bit k of the integer v is deposited at the k-th set bit of mask
pdep(v, mask) == {s \in mask : (v \div Pow2(BitsBelow(mask, s))) % 2 = 1}

(* ------------------- generated tables (build script) ------------------- *)

ROOK == 0

BISHOP == 1

SlidingPieces == {ROOK, BISHOP}

Directions(piece) ==
    IF piece = ROOK THEN {<<1, 0>>, <<-1, 0>>, <<0, 1>>, <<0, -1>>}
    ELSE {<<1, 1>>, <<1, -1>>, <<-1, 1>>, <<-1, -1>>}

OnBoard(r, f) == r \in Ranks /\ f \in Files

\* the squares walked from (r, f) in direction d, stopping at the board edge
\* or on the first square of blockers
RECURSIVE Walk(_, _, _, _)
Walk(r, f, d, blockers) ==
    IF ~OnBoard(r + d[1], f + d[2]) THEN {}
    ELSE LET s == (r + d[1]) * 8 + (f + d[2])
         IN  IF s \in blockers THEN {s}
             ELSE {s} \cup Walk(r + d[1], f + d[2], d, blockers)

\* the attack set the generator stores for a piece on sq and a blocker pattern
GenAttacks(piece, sq, blockers) ==
    UNION {Walk(get_rank(sq), get_file(sq), d, blockers) : d \in Directions(piece)}

RAYS == [piece \in SlidingPieces |-> [sq \in Squares |-> GenAttacks(piece, sq, {})]]

\* the ray squares whose occupancy can change the attack set: those with a
\* further ray square behind them
GenMask(piece, sq) ==
    {t \in RAYS[piece][sq] :
        \E d \in Directions(piece) :
            /\ t \in Walk(get_rank(sq), get_file(sq), d, {})
            /\ OnBoard(get_rank(t) + d[1], get_file(t) + d[2])}

\* The magic numbers found by the offline search, one row of eight bytes
\* (least significant first) per square a1, b1, ..., h8.
RookMagicBytes ==
    << << 34,  16,   1,  64, 128,   1, 128,   0>>,
       <<  8,  32,   0,  64,   0,  16,  64,   2>>,
       <<128,   0,  48,  10,   1,  32, 128,  40>>,
       <<128,   0,  16,   0,   8,  20, 128,   8>>,
       <<  0,   8,   2,  16,   0,  13,   0,   1>>,
       <<  0,   4,  24,   0, 145,   2,   0,   9>>,
       <<  0, 130,  16,   0,   9,  12,   0,   1>>,
       <<  2,  36, 128,  16,  65,   0,   0,   2>>,
       <<  8, 192,  32, 136,   3, 128,  80,   0>>,
       <<  0,  64,   0, 129,  32,   0,   1,   0>>,
       <<128,   2,  32,   0,  16, 128,  64,  80>>,
       << 33,   0,  16,   0,   9,   0,   5,  64>>,
       <<128,   1,   8,   0,   4, 128,  34,  64>>,
       <<  8,  16,   4,   0,   2,   0,  34,   0>>,
       <<  0,   1,   4,   0,   2,   0, 193,  40>>,
       << 70, 144,   0,   0,   1,   0,   1, 128>>,
       << 32,   0,  64,   0, 128, 129,   8,   0>>,
       <<  2,  74,   0,  33,   0, 130,   0,  12>>,
       <<  0,  96, 128,  16, 128,   4,  16,   4>>,
       <<  0,  16,  41,  32,   0,   1,  65,   4>>,
       <<128,   4,   0,   8, 128,   0,  36,   0>>,
       <<  6,   0,  36,   8,   0,   1,   1,  17>>,
       << 46,  24,   1,  80,   0, 132,   0,  64>>,
       <<148,  73,   8,   1,   0,   2,   0,   0>>,
       << 24,  64,   0, 128, 128,  34,   0,   0>>,
       <<  0, 208,   9,  64,   2,  32,  10,   2>>,
       << 18,   0,  65,   0,   1,  32, 136, 128>>,
       <<128,   0,   8, 128,   2,  16,   0,  16>>,
       <<  0,   1,   8,   0,   5,  16,   0,   1>>,
       <<  6,   0,   4,   0,   9,   0,  67,  32>>,
       << 24,  16,   2,   0,  68,  11,  80, 128>>,
       <<132,   8,   5,   0,  74,  98,  20,  16>>,
       << 32,   0, 128, 130,   0,  64, 212,   0>>,
       <<  2,  34,   0,   2,  65, 144,   0, 100>>,
       <<  0,  16, 128,   0,  32, 128,   0, 196>>,
       <<  4,   8, 128,   0,  16, 129,   1,   0>>,
       <<  0,  17,   0,   1,   8, 132, 226,   0>>,
       <<  0,   4, 128,   0, 130, 128,   2,   0>>,
       <<  0,   1, 128,   0,   2, 128, 133,   0>>,
       <<  1,  52,   0, 194, 133, 144,   0,  33>>,
       <<  0, 128, 128,   4, 192,  98,   0,  82>>,
       <<  0,  64,  66,   0,  16,  32,   2,   0>>,
       <<128, 128,   0,  32,   0, 208,   0,   0>>,
       <<  8,   0,   1,  48,   0,  99,  33,   6>>,
       <<128, 128,   0,   8,   0,   4,  12,  32>>,
       <<  4,   0,  34, 144, 216,   0,  10,   1>>,
       <<128, 128,   0,   2,   0,   3,  18, 128>>,
       <<  2,   0, 129,  64,   2,   0,   1,   0>>,
       <<128,   0,  64,   4, 128,  97, 225,   0>>,
       <<128,   0,  64, 128,   2, 160,  64,   0>>,
       <<128, 128,   6,  16,   2,  32,  24, 128>>,
       <<128,   0,  80, 128,   6,  72,   2,  16>>,
       <<128, 129,   0, 140,   0, 104,  68, 132>>,
       <<128,   0,   4,   0, 178, 128,   3,   0>>,
       <<  0, 132,  80,   3,   8, 146,  64,   1>>,
       <<  0, 130,  66,   0,  12,   1,  66,   0>>,
       <<  1, 128,   1,  49, 194,  32,  64,   0>>,
       <<138, 224,   0,  83,  64,   1,  18,   8>>,
       << 17,  12,   0,  65,   0, 160, 128,   1>>,
       <<  9,  33,   0,  16,  44,   0, 129,   1>>,
       <<  6,  16,   5,  72,  32,   0,   2,  16>>,
       <<  6,  16,  17,  52,   8,   0,  10,   8>>,
       << 20,   9, 130,   8,   8,  48,   1, 128>>,
       << 38,  64,  18, 129,   0,   4,   8,  64>> >>

BishopMagicBytes ==
    << <<196,  32,   2,   8,  72,  40,  36,  32>>,
       <<144,   0, 194,  64,   2,  72,   4,   4>>,
       << 51,   8,   0,  65,  24,   9,  16,   0>>,
       <<128,   2,   0, 128,  12,  36,  36,  16>>,
       << 24,   0,  64,  56,   4,   5,   4, 160>>,
       <<  8,  16, 128,   8,   2,   8,  66,   0>>,
       <<  4,   0,   4,  16,   4,   1,   4, 144>>,
       <<  1,   8,  18,  16,  34,   8,   1,   3>>,
       <<128, 128,  32,   4,  32,  32,  16,   0>>,
       << 64,  40, 145,   0,  72,  32, 160,   0>>,
       <<  4,   2, 129,  64,   8,  68, 128,  64>>,
       << 33,   4,   0,  18,  10,   2,  66,   9>>,
       <<128,  64,   4,  16,   2,  38,   0,  32>>,
       <<206,   0,  32,  12,  44,  24,   4,  17>>,
       <<  0,  48,   4, 136,   0,   4, 128,  64>>,
       << 22,   4,   8,  98,   5,   6,   8,   0>>,
       <<192,   4,  20, 140,  64,   0,  32,  16>>,
       <<  2,   1,   1,   8,  66, 132,  32, 128>>,
       << 64,   2,  66,   4, 208,   0,  17,  16>>,
       <<  2,  64,   0,   2, 232, 128,   0,   0>>,
       <<  0,   1, 160, 128,   2,   0,   4, 128>>,
       <<  4,   4,  24,  48,   1,   0,  67,  10>>,
       << 64, 144,   4,   1,   4,  64,  64,  16>>,
       <<  0,  24,  19,  36,  16, 137,   0,   0>>,
       << 72,  76,   2,  64, 144,  32,   4,   0>>,
       <<  0,   8,  76,   2,  64,  80,   2,  48>>,
       << 34,   0,   4,   1,   4,  16,  21,  64>>,
       << 32,  16, 192, 144,   0,   4,  16,   0>>,
       <<  5,  32, 128,   0,   0, 148,  96,  17>>,
       <<128, 144,   0, 131, 128,   4,  16,  65>>,
       <<  2,   8,  70,   9, 128,   0,   8,   0>>,
       << 64,  65,   8,  10,   2,   1,   7,   0>>,
       <<  0,  32,  32,   0, 133,   4, 132,  16>>,
       <<  9,   3,   8,  96,  32,  24,   1,   0>>,
       << 64,   0,   8,   4,   4, 184,  64,   0>>,
       <<128,   0,   8, 128,   2,   2,   0,   3>>,
       <<  0,  17,   0,   0,  65,   6,  64,   6>>,
       <<  0,   8,   2,  65,   0,  16,   2,   0>>,
       <<  0,  17,  65, 192,   2,  12,  16,  24>>,
       << 64,   4,  18, 128, 146,   0,  36,  33>>,
       <<  0, 192,   0,  36, 168,   8,   3, 193>>,
       <<  0,   4,   0,  24,   3,   8,  46,   0>>,
       <<  1,   8,   0,  36,   0,  20,   0,   0>>,
       <<  6,   4,   1,  34,   1,   2,  64,   2>>,
       <<  0,  10,  64,  48,  32, 144,  18,  16>>,
       <<192,  64, 136,   0,  12,  16,  64,   8>>,
       <<  0,  70,   9,   7,   1, 131,  32,  32>>,
       << 64,   9,   0,   1,   1,   8,   1,   4>>,
       << 16,  32,  16,   2,   2,   4,  44,   1>>,
       << 14,  12,  12, 136,  40,   1,  34,   4>>,
       << 80,   0,  19,   1,   2,   6,  72,  32>>,
       <<  0,  16, 136,  32,  16,   2,  66, 132>>,
       <<192,   1,   4,   3,   9,   4,   0,   2>>,
       <<144, 130,   0,  72,  96,   8,   0, 130>>,
       <<  8,  80,  33,   4,   2,   8, 192,  12>>,
       <<130,   0,  74,  16, 131,   4, 112,   1>>,
       << 34,  32,  17,   2,  66,   0,  34,   0>>,
       <<  0,  48,  65,   8,  65,   0,  64,   8>>,
       <<  6,   8,  66,   2, 130,   0,  50,   0>>,
       <<  8,   2,  66,   0,  10,   8,   4,  52>>,
       <<  1,  68,  48,   4, 128,   0,   0,   8>>,
       <<128,   0, 152, 161,  40,  68,   1,   0>>,
       << 32, 132,   0,   4,  36,  33,   0,   0>>,
       <<250, 195,   7,   8,   8,   8,   8,  16>> >>

\* the ray squares whose occupancy can change the attack set
GenMasks == [piece \in SlidingPieces |-> [sq \in Squares |-> GenMask(piece, sq)]]

\* Every square owns a region of 2^popcount(mask) slots of a move table, and
\* the regions are laid out square by square, the rook's before the bishop's.
\* GenMaskBits[n] is the popcount of the mask of region n.
GenMaskBits ==
    [n \in 0 .. (2 * NUM_SQUARES - 1) |->
        Cardinality(GenMasks[n \div NUM_SQUARES][n % NUM_SQUARES])]

\* the slots of the regions below region n whose mask has at most k bits
RECURSIVE GenSizeBelow(_, _)
GenSizeBelow(n, k) ==
    IF k = 0 THEN 0
    ELSE GenSizeBelow(n, k - 1)
            + Pow2(k) * Cardinality({m \in 0 .. (n - 1) : GenMaskBits[m] = k})

\* the first slot of region n (a mask has at most 12 bits)
GenOffsets == [n \in 0 .. (2 * NUM_SQUARES) |-> GenSizeBelow(n, 12)]

\* the length of MOVES, and of BMI_MOVES, that the generator produces
GenMovesLen == GenOffsets[2 * NUM_SQUARES]

\* struct Magic { magic_number, mask, offset, rightshift }
MAGIC_NUMBERS ==
    [piece \in SlidingPieces |-> [sq \in Squares |->
        [magic_number |-> IF piece = ROOK THEN RookMagicBytes[sq + 1]
                          ELSE BishopMagicBytes[sq + 1],
         mask         |-> GenMasks[piece][sq],
         offset       |-> GenOffsets[piece * NUM_SQUARES + sq],
         rightshift   |-> 64 - Cardinality(GenMasks[piece][sq])]]]

\* struct BmiMagic { blockers_mask, offset }
ROOK_BMI_MASK ==
    [sq \in Squares |->
        [blockers_mask |-> GenMasks[ROOK][sq], offset |-> GenOffsets[sq]]]

BISHOP_BMI_MASK ==
    [sq \in Squares |->
        [blockers_mask |-> GenMasks[BISHOP][sq],
         offset        |-> GenOffsets[NUM_SQUARES + sq]]]

\* (magic.magic_number * (blockers & magic.mask)).to_size(magic.rightshift)
MagicHash(magic, blockers) ==
    to_size(wrapping_mul(magic.magic_number, ToBytes(BitAnd(blockers, magic.mask))),
            magic.rightshift)

\* The squares on which sliding-piece queries are made, most varied first:
\* d4, h8, a1, e1, a5, e5, b2, g7, then the rest of the board.
SlidingSquareOrder ==
    << 27, 63, 0, 4, 32, 36, 9, 54,
       1, 2, 3, 5, 6, 7, 8, 10, 11, 12, 13, 14, 15, 16, 17, 18, 19, 20, 21, 22,
       23, 24, 25, 26, 28, 29, 30, 31, 33, 34, 35, 37, 38, 39, 40, 41, 42, 43,
       44, 45, 46, 47, 48, 49, 50, 51, 52, 53, 55, 56, 57, 58, 59, 60, 61, 62 >>

SlidingSquares ==
    {SlidingSquareOrder[i] :
        i \in 1 .. (IF MaxSlidingSquares < NUM_SQUARES THEN MaxSlidingSquares
                    ELSE NUM_SQUARES)}

\* The slots of MOVES the generator writes for one square: for every subset of
\* the mask, the slot the subset hashes to receives the attack set of the
\* subset.
GenRegion(piece, sq) ==
    LET magic == MAGIC_NUMBERS[piece][sq]
    IN  {<<magic.offset + MagicHash(magic, s), GenAttacks(piece, sq, s)>> :
            s \in SUBSET magic.mask}

\* the written slots, region by region (only the regions that queries read)
GenMoves ==
    [piece \in SlidingPieces |-> [sq \in SlidingSquares |-> GenRegion(piece, sq)]]

\* the region of MOVES (as piece and square) that holds slot i
RegionOf(i) ==
    CHOOSE n \in 0 .. (2 * NUM_SQUARES - 1) : GenOffsets[n] <= i /\ i < GenOffsets[n + 1]

\* MOVES[i], as the set of the values the slot may hold: the attack set the
\* generator wrote to slot i (EMPTY for a slot it never wrote), either exact or
\* over-inclusive by squares off the rays of the region's square
MOVES(i) ==
    LET n     == RegionOf(i)
        piece == n \div NUM_SQUARES
        sq    == n % NUM_SQUARES
        hits  == {e \in GenMoves[piece][sq] : e[1] = i}
        exact == IF hits = {} THEN EMPTY ELSE (CHOOSE e \in hits : TRUE)[2]
    IN  {exact, exact \cup BitNot(RAYS[piece][sq])}

\* BMI_MOVES[i]: a u16 holding the attack set of the blocker pattern that
\* extracts to the slot, packed by the ray squares of the region's square
BMI_MOVES(i) ==
    LET n     == RegionOf(i)
        piece == n \div NUM_SQUARES
        sq    == n % NUM_SQUARES
    IN  pext(GenAttacks(piece, sq, pdep(i - GenOffsets[n], GenMasks[piece][sq])),
             RAYS[piece][sq])

\* PAWN_MOVES[color][sq]: the square ahead, and on the color's second rank
\* also the square two ahead
PAWN_MOVES ==
    [c \in {0, 1} |-> [sq \in Squares |->
        LET d     == IF c = 0 THEN 1 ELSE -1
            r     == get_rank(sq)
            start == IF c = 0 THEN 1 ELSE 6
        IN  {t \in Squares :
               /\ get_file(t) = get_file(sq)
               /\ \/ get_rank(t) = r + d
                  \/ r = start /\ get_rank(t) = r + 2 * d}]]

\* PAWN_ATTACKS[color][sq]: the two squares diagonally ahead
PAWN_ATTACKS ==
    [c \in {0, 1} |-> [sq \in Squares |->
        LET d == IF c = 0 THEN 1 ELSE -1
        IN  {t \in Squares :
               /\ get_rank(t) = get_rank(sq) + d
               /\ get_file(t) \in {get_file(sq) - 1, get_file(sq) + 1}}]]

Sign(n) == IF n > 0 THEN 1 ELSE IF n < 0 THEN -1 ELSE 0

Abs(n) == IF n < 0 THEN -n ELSE n

\* two different squares on one rank, file or diagonal
Aligned(a, b) ==
    LET dr == get_rank(b) - get_rank(a)
        df == get_file(b) - get_file(a)
    IN  a # b /\ (dr = 0 \/ df = 0 \/ Abs(dr) = Abs(df))

\* the unit step from a towards b
Toward(a, b) ==
    <<Sign(get_rank(b) - get_rank(a)), Sign(get_file(b) - get_file(a))>>

\* BETWEEN[a][b]: the squares walked from a towards b, b excluded
BETWEEN ==
    [a \in Squares |-> [b \in Squares |->
        IF Aligned(a, b)
        THEN Walk(get_rank(a), get_file(a), Toward(a, b), {b}) \ {b}
        ELSE EMPTY]]

\* LINE[a][b]: a and the squares walked from a in both directions of the line
LINE ==
    [a \in Squares |-> [b \in Squares |->
        IF Aligned(a, b)
        THEN {a} \cup Walk(get_rank(a), get_file(a), Toward(a, b), {})
                 \cup Walk(get_rank(a), get_file(a), Toward(b, a), {})
        ELSE EMPTY]]

(* ------------------------------ state ---------------------------------- *)

VARIABLES
    phase,        \* "build", then "ready" (the crate compiled) or "rejected"
    bmi2,         \* the target feature that gates the hardware path
    movesLen,     \* MOVES.len()
    bmiMovesLen,  \* BMI_MOVES.len()
    call,         \* the query being served, NoCall between queries
    ret           \* the value the query returns

vars == <<phase, bmi2, movesLen, bmiMovesLen, call, ret>>

NoCall ==
    [op |-> "none", sq |-> None, color |-> NoColor, blockers |-> EMPTY,
     other |-> None, index |-> None]

(* ------------------------ lookups (magic.rs) --------------------------- *)

get_bishop_rays(sq) == RAYS[BISHOP][to_index(sq)]

get_rook_rays(sq) == RAYS[ROOK][to_index(sq)]

\* max_index of table_access_is_sound, for every table and square:
\* ((magic.magic_number.0 * magic.mask.0) >> magic.rightshift) as usize
max_index ==
    [index \in SlidingPieces |-> [sq \in Squares |->
        LET magic == MAGIC_NUMBERS[index][sq]
        IN  to_size(wrapping_mul(magic.magic_number, ToBytes(magic.mask)),
                    magic.rightshift)]]

table_access_is_sound(index) ==
    \A sq \in Squares :
        LET magic == MAGIC_NUMBERS[index][sq]
        IN  ~(magic.offset + max_index[index][sq] >= movesLen)

\* bmi_table_access_is_sound comparing with > instead of >=
bmi_table_access_is_sound_gt(masks) ==
    \A sq \in Squares :
        LET bmi2_magic == masks[sq]
            max        == Pow2(count_ones(bmi2_magic.blockers_mask)) - 1
        IN  ~(bmi2_magic.offset + max > bmiMovesLen)

bmi_table_access_is_sound(masks) ==
    \A sq \in Squares :
        LET bmi2_magic == masks[sq]
            max        == Pow2(count_ones(bmi2_magic.blockers_mask)) - 1
        IN  ~(bmi2_magic.offset + max >= bmiMovesLen)

\* what an out-of-bounds read may yield
GarbageBoards == {EMPTY, Universe}

GarbageWords == {0, 65535}

\* *MOVES.get_unchecked(i): the entry, or anything when i is out of bounds
MovesGetUnchecked(i) == IF i < movesLen THEN MOVES(i) ELSE GarbageBoards

\* *BMI_MOVES.get_unchecked(i)
BmiMovesGetUnchecked(i) == IF i < bmiMovesLen THEN {BMI_MOVES(i)} ELSE GarbageWords

\* the index get_rook_moves and get_bishop_moves read MOVES at
MagicIndex(piece, sq, blockers) ==
    LET magic == MAGIC_NUMBERS[piece][to_index(sq)]
    IN  magic.offset + MagicHash(magic, blockers)

\* the index get_rook_moves_bmi and get_bishop_moves_bmi read BMI_MOVES at
BmiIndex(masks, sq, blockers) ==
    LET bmi2_magic == masks[to_index(sq)]
    IN  pext(blockers, bmi2_magic.blockers_mask) + bmi2_magic.offset

\* get_rook_moves taking no notice of blockers
get_rook_moves_ignoring_blockers(sq, blockers) == {get_rook_rays(sq)}

\* The sliding lookups yield the set of values the call may return: one
\* value, unless the unchecked read is out of bounds.
get_rook_moves(sq, blockers) ==
    {BitAnd(m, get_rook_rays(sq)) :
        m \in MovesGetUnchecked(MagicIndex(ROOK, sq, blockers))}

\* get_rook_moves_bmi depositing onto the blockers mask instead of the rays
get_rook_moves_bmi_onto_mask(sq, blockers) ==
    {pdep(w, ROOK_BMI_MASK[to_index(sq)].blockers_mask) :
        w \in BmiMovesGetUnchecked(BmiIndex(ROOK_BMI_MASK, sq, blockers))}

get_rook_moves_bmi(sq, blockers) ==
    {pdep(w, get_rook_rays(sq)) :
        w \in BmiMovesGetUnchecked(BmiIndex(ROOK_BMI_MASK, sq, blockers))}

\* get_bishop_moves without the final intersection with the rays
get_bishop_moves_no_rays(sq, blockers) ==
    MovesGetUnchecked(MagicIndex(BISHOP, sq, blockers))

get_bishop_moves(sq, blockers) ==
    {BitAnd(m, get_bishop_rays(sq)) :
        m \in MovesGetUnchecked(MagicIndex(BISHOP, sq, blockers))}

get_bishop_moves_bmi(sq, blockers) ==
    {pdep(w, get_bishop_rays(sq)) :
        w \in BmiMovesGetUnchecked(BmiIndex(BISHOP_BMI_MASK, sq, blockers))}

get_pawn_attacks(sq, color, blockers) ==
    BitAnd(PAWN_ATTACKS[color_index(color)][to_index(sq)], blockers)

\* get_pawn_quiets without the probe of the square ahead
get_pawn_quiets_no_probe(sq, color, blockers) ==
    BitAnd(PAWN_MOVES[color_index(color)][to_index(sq)], BitNot(blockers))

get_pawn_quiets(sq, color, blockers) ==
    IF BitAnd(from_square(uforward(sq, color)), blockers) # EMPTY
    THEN EMPTY
    ELSE BitAnd(PAWN_MOVES[color_index(color)][to_index(sq)], BitNot(blockers))

\* get_pawn_moves combining attacks and quiets with & instead of ^
get_pawn_moves_and(sq, color, blockers) ==
    BitAnd(get_pawn_attacks(sq, color, blockers), get_pawn_quiets(sq, color, blockers))

get_pawn_moves(sq, color, blockers) ==
    BitXorBB(get_pawn_attacks(sq, color, blockers), get_pawn_quiets(sq, color, blockers))

line(sq1, sq2) == LINE[to_index(sq1)][to_index(sq2)]

\* between reading the LINE table
between_line(sq1, sq2) == LINE[to_index(sq1)][to_index(sq2)]

between(sq1, sq2) == BETWEEN[to_index(sq1)][to_index(sq2)]

\* the const_assert! of get_bishop_moves_bmi left out
ConstAssertsHold_no_bishop_bmi ==
    /\ table_access_is_sound(ROOK)
    /\ table_access_is_sound(BISHOP)
    /\ bmi2 => bmi_table_access_is_sound(ROOK_BMI_MASK)

\* The const_assert! items of the crate: those of get_rook_moves and
\* get_bishop_moves, and with bmi2 those of the two hardware lookups.
ConstAssertsHold ==
    /\ table_access_is_sound(ROOK)
    /\ table_access_is_sound(BISHOP)
    /\ bmi2 => bmi_table_access_is_sound(ROOK_BMI_MASK)
    /\ bmi2 => bmi_table_access_is_sound(BISHOP_BMI_MASK)

(* ----------------------------- inputs ---------------------------------- *)

\* d1 b2 d3 e3 e4 c5 d6 f6 g7 e8
BlockerPool == {3, 9, 19, 20, 28, 34, 43, 45, 54, 60}

\* the subsets of the pool of at most n squares
RECURSIVE PoolSets(_)
PoolSets(n) ==
    IF n = 0 THEN {EMPTY}
    ELSE {b \cup {s} : b \in PoolSets(n - 1), s \in BlockerPool} \cup {EMPTY}

\* the blocker sets of the queries: at most MaxBlockers squares of the pool,
\* and the full board
BlockerSets == PoolSets(MaxBlockers) \cup {Universe}

(* ----------------------------- actions --------------------------------- *)

Init ==
    /\ phase = "build"
    /\ bmi2 \in BOOLEAN
    /\ movesLen = GenMovesLen
    /\ bmiMovesLen = GenMovesLen
    /\ call = NoCall
    /\ ret = EMPTY

\* the generator may have produced move tables that are too short
InitGen ==
    /\ phase = "build"
    /\ bmi2 \in BOOLEAN
    /\ movesLen \in {GenMovesLen - t : t \in 0 .. MaxShort}
    /\ bmiMovesLen \in {GenMovesLen - t : t \in 0 .. MaxShort}
    /\ call = NoCall
    /\ ret = EMPTY

\* Compiling the crate evaluates the const_assert! items; one that fails is a
\* compile error and there is no program to run.
Compile ==
    /\ phase = "build"
    /\ phase' = IF ConstAssertsHold THEN "ready" ELSE "rejected"
    /\ UNCHANGED <<bmi2, movesLen, bmiMovesLen, call, ret>>

\* queries are served by the compiled crate, one at a time
Idle == phase = "ready" /\ call.op = "none"

Serve(op, sq, color, blockers, other, index, results) ==
    /\ Idle
    /\ call' = [op |-> op, sq |-> sq, color |-> color, blockers |-> blockers,
                other |-> other, index |-> index]
    /\ ret' \in results
    /\ UNCHANGED <<phase, bmi2, movesLen, bmiMovesLen>>

GetRookMoves(sq, blockers) ==
    Serve("get_rook_moves", sq, NoColor, blockers, None,
          MagicIndex(ROOK, sq, blockers), get_rook_moves(sq, blockers))

GetBishopMoves(sq, blockers) ==
    Serve("get_bishop_moves", sq, NoColor, blockers, None,
          MagicIndex(BISHOP, sq, blockers), get_bishop_moves(sq, blockers))

GetRookMovesBmi(sq, blockers) ==
    /\ bmi2
    /\ Serve("get_rook_moves_bmi", sq, NoColor, blockers, None,
             BmiIndex(ROOK_BMI_MASK, sq, blockers), get_rook_moves_bmi(sq, blockers))

GetBishopMovesBmi(sq, blockers) ==
    /\ bmi2
    /\ Serve("get_bishop_moves_bmi", sq, NoColor, blockers, None,
             BmiIndex(BISHOP_BMI_MASK, sq, blockers), get_bishop_moves_bmi(sq, blockers))

GetPawnAttacks(sq, color, blockers) ==
    Serve("get_pawn_attacks", sq, color, blockers, None, None,
          {get_pawn_attacks(sq, color, blockers)})

GetPawnQuiets(sq, color, blockers) ==
    Serve("get_pawn_quiets", sq, color, blockers, None, None,
          {get_pawn_quiets(sq, color, blockers)})

GetPawnMoves(sq, color, blockers) ==
    Serve("get_pawn_moves", sq, color, blockers, None, None,
          {get_pawn_moves(sq, color, blockers)})

Line(sq1, sq2) ==
    Serve("line", sq1, NoColor, EMPTY, sq2, None, {line(sq1, sq2)})

Between(sq1, sq2) ==
    Serve("between", sq1, NoColor, EMPTY, sq2, None, {between(sq1, sq2)})

\* the query returns to its caller
Return ==
    /\ call.op # "none"
    /\ call' = NoCall
    /\ ret' = EMPTY
    /\ UNCHANGED <<phase, bmi2, movesLen, bmiMovesLen>>

Sliding ==
    /\ Idle
    /\ \E sq \in SlidingSquares, blockers \in BlockerSets :
           \/ GetRookMoves(sq, blockers)
           \/ GetBishopMoves(sq, blockers)
           \/ GetRookMovesBmi(sq, blockers)
           \/ GetBishopMovesBmi(sq, blockers)

Pawns ==
    /\ Idle
    /\ \E sq \in Squares, color \in Colors, blockers \in BlockerSets :
           \/ GetPawnAttacks(sq, color, blockers)
           \/ GetPawnQuiets(sq, color, blockers)
           \/ GetPawnMoves(sq, color, blockers)

Lines ==
    /\ Idle
    /\ \E sq1 \in Squares, sq2 \in Squares :
           \/ Line(sq1, sq2)
           \/ Between(sq1, sq2)

Next == Compile \/ Sliding \/ Pawns \/ Lines \/ Return

Spec == Init /\ [][Next]_vars

NextGen == Compile \/ Sliding \/ Return

SpecGen == InitGen /\ [][NextGen]_vars

(* ------------------- square queries (square.rs) ------------------------ *)

\* a call of a Square function: its receiver or arguments
SqCall(op, sq, color, rank, file) ==
    [op |-> op, sq |-> sq, color |-> color, rank |-> rank, file |-> file]

ServeSq(c, result) ==
    /\ Idle
    /\ call' = c
    /\ ret' = result
    /\ UNCHANGED <<phase, bmi2, movesLen, bmiMovesLen>>

MakeSquare(rank, file) ==
    ServeSq(SqCall("make_square", None, NoColor, rank, file), make_square(rank, file))

GetRank(sq) == ServeSq(SqCall("get_rank", sq, NoColor, None, None), get_rank(sq))

GetFile(sq) == ServeSq(SqCall("get_file", sq, NoColor, None, None), get_file(sq))

\* ALL_SQUARES[i].to_index(); the call records i as rank i / 8 and file i % 8
ToIndex(i) ==
    ServeSq(SqCall("to_index", ALL_SQUARES[i], NoColor, i \div 8, i % 8),
            to_index(ALL_SQUARES[i]))

ToInt(i) ==
    ServeSq(SqCall("to_int", ALL_SQUARES[i], NoColor, i \div 8, i % 8),
            to_int(ALL_SQUARES[i]))

Up(sq) == ServeSq(SqCall("up", sq, NoColor, None, None), up(sq))

Down(sq) == ServeSq(SqCall("down", sq, NoColor, None, None), down(sq))

Left(sq) == ServeSq(SqCall("left", sq, NoColor, None, None), left(sq))

Right(sq) == ServeSq(SqCall("right", sq, NoColor, None, None), right(sq))

Forward(sq, color) ==
    ServeSq(SqCall("forward", sq, color, None, None), forward(sq, color))

Backward(sq, color) ==
    ServeSq(SqCall("backward", sq, color, None, None), backward(sq, color))

Uup(sq) == ServeSq(SqCall("uup", sq, NoColor, None, None), uup(sq))

Udown(sq) == ServeSq(SqCall("udown", sq, NoColor, None, None), udown(sq))

Uleft(sq) == ServeSq(SqCall("uleft", sq, NoColor, None, None), uleft(sq))

Uright(sq) == ServeSq(SqCall("uright", sq, NoColor, None, None), uright(sq))

Uforward(sq, color) ==
    ServeSq(SqCall("uforward", sq, color, None, None), uforward(sq, color))

Ubackward(sq, color) ==
    ServeSq(SqCall("ubackward", sq, color, None, None), ubackward(sq, color))

(* ------------------------ square text (square.rs) ---------------------- *)

\* A string is the sequence of its characters, a character its Unicode
\* scalar value:  ` a h i 0 1 8 9 and the two-byte e-acute
Alphabet == {96, 97, 104, 105, 48, 49, 56, 57, 233}

\* the strings of at most n characters
RECURSIVE Strs(_)
Strs(n) ==
    IF n = 0 THEN {<<>>}
    ELSE LET shorter == Strs(n - 1)
         IN  shorter \cup {Append(t, c) : t \in shorter, c \in Alphabet}

\* the number of bytes of a character in UTF-8
len_utf8(c) == IF c < 128 THEN 1 ELSE IF c < 2048 THEN 2 ELSE IF c < 65536 THEN 3 ELSE 4

\* str::len: the length in bytes
RECURSIVE str_len(_)
str_len(s) == IF s = <<>> THEN 0 ELSE len_utf8(Head(s)) + str_len(Tail(s))

InvalidSquare == "InvalidSquare"

\* what a text function yields: a Result, an Option, a String or a panic
Yield(kind, sq, err, text) == [kind |-> kind, sq |-> sq, err |-> err, text |-> text]

Ok(sq) == Yield("Ok", sq, "none", <<>>)

Err(e) == Yield("Err", None, e, <<>>)

Some(sq) == Yield("Some", sq, "none", <<>>)

NoSquare == Yield("None", None, "none", <<>>)

String(s) == Yield("String", None, "none", s)

\* an index out of bounds panics
Panic == Yield("panic", None, "none", <<>>)

rank_from_index(i) == i % 8

file_from_index(i) == i % 8

\* Display: the file letter, then the rank digit
fmt(sq) == <<(97 + get_file(sq)) % 256, (49 + get_rank(sq)) % 256>>

\* FromStr: ch is the vector of the characters of s, ch[0] is ch[1] here
from_str(s) ==
    IF str_len(s) < 2 THEN Err(InvalidSquare)
    ELSE LET ch == s
         IN  IF ch[1] \notin 97 .. 104 THEN Err(InvalidSquare)
             ELSE IF Len(ch) < 2 THEN Panic
             ELSE IF ch[2] \notin 49 .. 56 THEN Err(InvalidSquare)
             ELSE Ok(make_square(rank_from_index(ch[2] - 49),
                                 file_from_index(ch[1] - 97)))

\* Square::from_str(&s).ok()
from_string(s) ==
    LET r == from_str(s)
    IN  IF r.kind = "Ok" THEN Some(r.sq) ELSE IF r.kind = "Err" THEN NoSquare ELSE r

\* a call that takes or makes a text
TextCall(op, sq, s) == [op |-> op, sq |-> sq, s |-> s]

Display(sq) == ServeSq(TextCall("fmt", sq, <<>>), String(fmt(sq)))

FromStr(s) == ServeSq(TextCall("from_str", None, s), from_str(s))

FromString(s) == ServeSq(TextCall("from_string", None, s), from_string(s))

\* the strings parsed: the short strings over the alphabet and the text of
\* every square
Texts == Strs(MaxStrLen) \cup {fmt(sq) : sq \in Squares}

Text ==
    /\ Idle
    /\ \/ \E sq \in Squares : Display(sq)
       \/ \E s \in Texts : FromStr(s) \/ FromString(s)

Indexing ==
    /\ Idle
    /\ \/ \E rank \in Ranks, file \in Files : MakeSquare(rank, file)
       \/ \E sq \in Squares : GetRank(sq) \/ GetFile(sq)
       \/ \E i \in 0 .. (NUM_SQUARES - 1) : ToIndex(i) \/ ToInt(i)

Steps ==
    /\ Idle
    /\ \E sq \in Squares :
           \/ Up(sq) \/ Down(sq) \/ Left(sq) \/ Right(sq)
           \/ Uup(sq) \/ Udown(sq) \/ Uleft(sq) \/ Uright(sq)
           \/ \E color \in Colors :
                  \/ Forward(sq, color) \/ Backward(sq, color)
                  \/ Uforward(sq, color) \/ Ubackward(sq, color)

NextSq == Compile \/ Indexing \/ Steps \/ Return

SpecSq == Init /\ [][NextSq]_vars

NextText == Compile \/ Text \/ Return

SpecText == Init /\ [][NextText]_vars

(* ------------------------------ claims --------------------------------- *)

\* C1: whenever table_access_is_sound(piece) returns true, the index
\* offset + ((magic_number * (blockers & mask)) >> rightshift) that
\* get_rook_moves / get_bishop_moves read MOVES at is below MOVES.len(), the
\* index of the full mask being the largest index of the square.
C1_SoundCheckBoundsIndex ==
    /\ (call.op = "get_rook_moves" /\ table_access_is_sound(ROOK))
            => call.index < movesLen
    /\ (call.op = "get_bishop_moves" /\ table_access_is_sound(BISHOP))
            => call.index < movesLen

\* C2: a sliding query is served only when the soundness check of the table it
\* reads has passed; in a build one of whose checks fails the crate is never
\* ready and no query is ever served, the failed build being rejected for good.
C2_CheckPrecedesUse ==
    /\ call.op = "get_rook_moves" => table_access_is_sound(ROOK)
    /\ call.op = "get_bishop_moves" => table_access_is_sound(BISHOP)
    /\ call.op = "get_rook_moves_bmi"
          => bmi2 /\ bmi_table_access_is_sound(ROOK_BMI_MASK)
    /\ call.op = "get_bishop_moves_bmi"
          => bmi2 /\ bmi_table_access_is_sound(BISHOP_BMI_MASK)
    /\ (\/ ~table_access_is_sound(ROOK)
        \/ ~table_access_is_sound(BISHOP)
        \/ bmi2 /\ ~bmi_table_access_is_sound(ROOK_BMI_MASK)
        \/ bmi2 /\ ~bmi_table_access_is_sound(BISHOP_BMI_MASK))
          => phase \in {"build", "rejected"} /\ call = NoCall /\ ret = EMPTY

\* a build whose hardware table is too short was rejected
C2_Witness ==
    /\ phase = "rejected"
    /\ bmi2
    /\ table_access_is_sound(ROOK)
    /\ table_access_is_sound(BISHOP)
    /\ ~bmi_table_access_is_sound(BISHOP_BMI_MASK)

\* C3: a hardware lookup returns exactly the BitBoard the portable lookup
\* returns for the same square and blockers, for the rook and for the bishop.
C3_BmiEqualsPortable ==
    /\ call.op = "get_rook_moves_bmi"
          => get_rook_moves(call.sq, call.blockers) = {ret}
    /\ call.op = "get_bishop_moves_bmi"
          => get_bishop_moves(call.sq, call.blockers) = {ret}
    /\ (bmi2 /\ call.op = "get_rook_moves")
          => get_rook_moves_bmi(call.sq, call.blockers) = {ret}
    /\ (bmi2 /\ call.op = "get_bishop_moves")
          => get_bishop_moves_bmi(call.sq, call.blockers) = {ret}

\* a hardware rook lookup on d4 with a blocker on d6 and one off the rays
C3_Witness ==
    /\ call.op = "get_rook_moves_bmi"
    /\ call.sq = 27
    /\ call.blockers = {43, 54}
    /\ ret = {3, 11, 19, 35, 43, 24, 25, 26, 28, 29, 30, 31}

\* C4: a rook or bishop lookup returns exactly the squares t other than the
\* piece's square that lie on one of the piece's directions with no blocker
\* strictly between the piece and t: every ray runs up to and including its
\* first blocker, or to the board edge; a rook on d4 with a blocker on d6 gets
\* d1-d3, d5, d6 and the 4th rank without d4.
C4_BlockingCorrectness ==
    /\ call.op \in {"get_rook_moves", "get_bishop_moves"} =>
         \A t \in Squares :
            LET dr == get_rank(t) - get_rank(call.sq)
                df == get_file(t) - get_file(call.sq)
                n  == IF Abs(dr) > Abs(df) THEN Abs(dr) ELSE Abs(df)
                onRay == IF call.op = "get_rook_moves"
                         THEN (dr = 0) # (df = 0)
                         ELSE dr # 0 /\ Abs(dr) = Abs(df)
                clear == \A k \in 1 .. (n - 1) :
                            ((get_rank(call.sq) + k * Sign(dr)) * 8
                              + (get_file(call.sq) + k * Sign(df))) \notin call.blockers
            IN  t \in ret <=> (onRay /\ clear)
    /\ (call.op = "get_rook_moves" /\ call.sq = 27 /\ call.blockers = {43})
          => ret = {3, 11, 19, 35, 43, 24, 25, 26, 28, 29, 30, 31}

\* the rook on d4 with the blocker on d6
C4_Witness ==
    /\ call.op = "get_rook_moves"
    /\ call.sq = 27
    /\ call.blockers = {43}
    /\ 43 \in ret
    /\ 51 \notin ret

\* C5: the result of each of the four sliding lookups is a subset of the
\* piece's rays from the square, whatever the blockers.
C5_RayContainment ==
    /\ call.op \in {"get_rook_moves", "get_rook_moves_bmi"}
          => ret \subseteq get_rook_rays(call.sq)
    /\ call.op \in {"get_bishop_moves", "get_bishop_moves_bmi"}
          => ret \subseteq get_bishop_rays(call.sq)

\* a bishop lookup on d4 with every square of the board a blocker
C5_Witness ==
    /\ call.op = "get_bishop_moves"
    /\ call.sq = 27
    /\ call.blockers = Universe
    /\ ret = {18, 20, 34, 36}

\* C6: get_pawn_attacks and get_pawn_quiets of one square, color and blocker
\* set are disjoint, and get_pawn_moves is their union.
C6_PawnExclusivity ==
    call.op \in {"get_pawn_attacks", "get_pawn_quiets", "get_pawn_moves"} =>
        LET attacks == get_pawn_attacks(call.sq, call.color, call.blockers)
            quiets  == get_pawn_quiets(call.sq, call.color, call.blockers)
        IN  /\ attacks \cap quiets = {}
            /\ call.op = "get_pawn_moves" => ret = attacks \cup quiets

\* a white pawn on e2 that may capture on d3 and push to e3 and e4
C6_Witness ==
    /\ call.op = "get_pawn_moves"
    /\ call.sq = 12
    /\ call.color = White
    /\ call.blockers = {19}
    /\ ret = {19, 20, 28}

\* C7: get_pawn_quiets returns the empty set when the square ahead of the pawn
\* is a blocker, and otherwise the push-table entry without the blockers; a
\* white pawn on e2 gets {e3, e4} with no blockers, {e3} with a blocker on e4
\* and nothing with a blocker on e3.
C7_PawnQuiets ==
    call.op = "get_pawn_quiets" =>
        LET ahead == forward(call.sq, call.color)
            pushes == PAWN_MOVES[color_index(call.color)][call.sq]
        IN  /\ (ahead # None /\ ahead \in call.blockers) => ret = {}
            /\ ~(ahead # None /\ ahead \in call.blockers)
                  => ret = pushes \ call.blockers
            /\ (call.sq = 12 /\ call.color = White) =>
                  /\ call.blockers = {} => ret = {20, 28}
                  /\ call.blockers = {28} => ret = {20}
                  /\ call.blockers = {20} => ret = {}

\* the white pawn on e2 with a blocker on e3
C7_Witness ==
    /\ call.op = "get_pawn_quiets"
    /\ call.sq = 12
    /\ call.color = White
    /\ call.blockers = {20}
    /\ ret = {}

\* C8: for a pawn on the last rank of its color get_pawn_quiets and
\* get_pawn_moves return no square of the rank uforward wraps to, and for a
\* pawn on any other square their result does not depend on which squares of
\* that rank are blockers.
C8_WrappedSquareNeverLeaks ==
    call.op \in {"get_pawn_quiets", "get_pawn_moves"} =>
        LET last    == IF call.color = White THEN 7 ELSE 0
            wrapped == {t \in Squares : get_rank(t) = 7 - last}
            without == call.blockers \ wrapped
            with    == call.blockers \cup wrapped
        IN  IF get_rank(call.sq) = last
            THEN /\ uforward(call.sq, call.color) \in wrapped
                 /\ ret \cap wrapped = {}
            ELSE IF call.op = "get_pawn_quiets"
            THEN /\ ret = get_pawn_quiets(call.sq, call.color, without)
                 /\ ret = get_pawn_quiets(call.sq, call.color, with)
            ELSE /\ ret = get_pawn_moves(call.sq, call.color, without)
                 /\ ret = get_pawn_moves(call.sq, call.color, with)

\* a white pawn on d8 whose wrapped square ahead, d1, is a blocker
C8_Witness ==
    /\ call.op = "get_pawn_quiets"
    /\ call.sq = 59
    /\ call.color = White
    /\ uforward(call.sq, call.color) = 3
    /\ 3 \in call.blockers
    /\ ret = {}

\* C9: between and line do not depend on the order of their two squares;
\* between holds the squares strictly between two squares of one rank, file
\* or diagonal and nothing for other pairs (a2..a7 for a1 and a8, nothing for
\* a1 and b2); line holds every square of the rank, file or diagonal through
\* two different squares and nothing for unaligned ones.
C9_BetweenLine ==
    call.op \in {"between", "line"} =>
        LET a  == call.sq
            b  == call.other
            dr == get_rank(b) - get_rank(a)
            df == get_file(b) - get_file(a)
            aligned == a # b /\ (dr = 0 \/ df = 0 \/ Abs(dr) = Abs(df))
            \* t lies on the line through a and b
            collinear(t) ==
                (get_rank(t) - get_rank(a)) * df = (get_file(t) - get_file(a)) * dr
            \* t lies inside the box spanned by a and b
            inside(t) ==
                /\ (get_rank(t) - get_rank(a)) * (get_rank(t) - get_rank(b)) <= 0
                /\ (get_file(t) - get_file(a)) * (get_file(t) - get_file(b)) <= 0
        IN  IF call.op = "between"
            THEN /\ ret = between(b, a)
                 /\ ret = IF aligned
                          THEN {t \in Squares \ {a, b} : collinear(t) /\ inside(t)}
                          ELSE {}
                 /\ (a = 0 /\ b = 56) => ret = {8, 16, 24, 32, 40, 48}
                 /\ (a = 0 /\ b = 9) => ret = {}
            ELSE /\ ret = line(b, a)
                 /\ a # b => ret = IF aligned
                                   THEN {t \in Squares : collinear(t)}
                                   ELSE {}

\* between(a1, a8)
C9_Witness ==
    /\ call.op = "between"
    /\ call.sq = 0
    /\ call.other = 56
    /\ ret = {8, 16, 24, 32, 40, 48}

\* C10: the index pext(blockers, blockers_mask) of a hardware query is at most
\* (1 << popcount(blockers_mask)) - 1, and offset + pext(blockers,
\* blockers_mask) is below BMI_MOVES.len() whenever bmi_table_access_is_sound
\* passes for the piece's table.
C10_BmiIndexInBounds ==
    /\ call.op = "get_rook_moves_bmi" =>
          LET bmi2_magic == ROOK_BMI_MASK[call.sq]
          IN  /\ call.index - bmi2_magic.offset
                    <= Pow2(count_ones(bmi2_magic.blockers_mask)) - 1
              /\ bmi_table_access_is_sound(ROOK_BMI_MASK) => call.index < bmiMovesLen
    /\ call.op = "get_bishop_moves_bmi" =>
          LET bmi2_magic == BISHOP_BMI_MASK[call.sq]
          IN  /\ call.index - bmi2_magic.offset
                    <= Pow2(count_ones(bmi2_magic.blockers_mask)) - 1
              /\ bmi_table_access_is_sound(BISHOP_BMI_MASK) => call.index < bmiMovesLen

\* a hardware query on h8 with every mask square occupied reads the last slot
C10_Witness ==
    /\ call.op = "get_bishop_moves_bmi"
    /\ call.sq = 63
    /\ BISHOP_BMI_MASK[63].blockers_mask \subseteq call.blockers
    /\ call.index = bmiMovesLen - 1

\* C11: make_square(r, f) is the square of index 8 * r + f, in 0 .. 63, with
\* rank r and file f; every square is the make_square of its rank and file;
\* entry i of ALL_SQUARES has index i.
C11_SquareIndexBijection ==
    /\ call.op = "make_square" =>
          /\ ret \in 0 .. 63
          /\ to_index(ret) = 8 * call.rank + call.file
          /\ get_rank(ret) = call.rank
          /\ get_file(ret) = call.file
    /\ call.op = "get_rank" =>
          /\ ret \in Ranks
          /\ make_square(ret, get_file(call.sq)) = call.sq
    /\ call.op = "get_file" =>
          /\ ret \in Files
          /\ make_square(get_rank(call.sq), ret) = call.sq
    /\ call.op \in {"to_index", "to_int"} => ret = 8 * call.rank + call.file

\* make_square(Seventh, D) is d7, square 51
C11_Witness ==
    /\ call.op = "make_square"
    /\ call.rank = 6
    /\ call.file = 3
    /\ ret = 51

\* C12: a checked step returns None exactly at the board edge in its
\* direction and otherwise the neighbouring square, the other coordinate
\* unchanged; a wrapping step returns the square of the checked step when
\* there is one and at the edge the square of the opposite edge, the other
\* coordinate unchanged.
C12_Steps ==
    LET r == get_rank(call.sq)
        f == get_file(call.sq)
        ahead == IF call.color = White THEN 1 ELSE -1
        \* the direction of the step, as <<ranks, files>>
        d == CASE call.op \in {"up", "uup"} -> <<1, 0>>
               [] call.op \in {"down", "udown"} -> <<-1, 0>>
               [] call.op \in {"left", "uleft"} -> <<0, -1>>
               [] call.op \in {"right", "uright"} -> <<0, 1>>
               [] call.op \in {"forward", "uforward"} -> <<ahead, 0>>
               [] call.op \in {"backward", "ubackward"} -> <<-ahead, 0>>
        atEdge == ~(r + d[1] \in Ranks /\ f + d[2] \in Files)
        neighbour == 8 * (r + d[1]) + (f + d[2])
        opposite == 8 * ((r + d[1] + 8) % 8) + ((f + d[2] + 8) % 8)
    IN  /\ call.op \in {"up", "down", "left", "right", "forward", "backward"} =>
              /\ ret = None <=> atEdge
              /\ ~atEdge => ret = neighbour
        /\ call.op \in {"uup", "udown", "uleft", "uright", "uforward", "ubackward"} =>
              /\ ret \in Squares
              /\ ~atEdge => ret = neighbour
              /\ atEdge => ret = opposite
        /\ call.op = "uup" /\ up(call.sq) # None => ret = up(call.sq)
        /\ call.op = "udown" /\ down(call.sq) # None => ret = down(call.sq)
        /\ call.op = "uleft" /\ left(call.sq) # None => ret = left(call.sq)
        /\ call.op = "uright" /\ right(call.sq) # None => ret = right(call.sq)
        /\ call.op = "uforward" /\ forward(call.sq, call.color) # None
              => ret = forward(call.sq, call.color)
        /\ call.op = "ubackward" /\ backward(call.sq, call.color) # None
              => ret = backward(call.sq, call.color)

\* uup of d8 wraps to d1, where up returns None
C12_Witness ==
    /\ call.op = "uup"
    /\ call.sq = 59
    /\ up(call.sq) = None
    /\ ret = 3

\* C13: from_str never panics; it returns Ok only for a string that is
\* exactly a file letter a..h followed by a rank digit 1..8 and
\* Err(InvalidSquare) for every other string, shorter or longer ones
\* included; from_str of the Display text of a square returns that square.
C13_FromStrStrict ==
    call.op = "from_str" =>
        LET s == call.s
            isSquareText == Len(s) = 2 /\ s[1] \in 97 .. 104 /\ s[2] \in 49 .. 56
        IN  /\ ret.kind \in {"Ok", "Err"}
            /\ ret.kind = "Ok" => isSquareText
            /\ ~isSquareText => ret = Err(InvalidSquare)
            /\ \A sq \in Squares : s = fmt(sq) => ret = Ok(sq)

====
